---- MODULE Spec2Model ----
(***************************************************************************)
(* A model of jrnl's DayOne journal backend (src/jrnl/DayOneJournal.py):   *)
(* the journal directory on disk, the in-memory entry list, the list of    *)
(* entries awaiting physical removal, and the three operations open(),     *)
(* parse_editable_str() (with editable_str()) and write().                 *)
(***************************************************************************)
EXTENDS Integers, Sequences, FiniteSets, TLC

\* ------------------------------------------------------------------ bounds
\* Record files in the journal directory before the session starts.
MaxFiles == 2
\* Documents that come back from the editor changed, in one session.
MaxEdits == 1

\* ------------------------------------------------------- strings and sets
\* str.upper() and str.lower() on the identity strings of the model.
Upper(s) ==
    IF s = "a1" THEN "A1" ELSE s

Lower(s) ==
    IF s = "A1" THEN "a1" ELSE s

Range(s) ==
    {s[i] : i \in DOMAIN s}

\* All orderings of a finite set, as sequences without repetition.
Perms(S) ==
    {s \in [1..Cardinality(S) -> S] : \A i, j \in DOMAIN s : s[i] = s[j] => i = j}

\* The least index of a non-empty set of indices, 0 for the empty set.
FirstOf(hits) ==
    IF hits = {} THEN 0 ELSE CHOOSE i \in hits : \A j \in hits : i <= j

\* seq with the element at index i taken out.
RemoveAt(seq, i) ==
    [j \in 1..(Len(seq) - 1) |-> IF j < i THEN seq[j] ELSE seq[j + 1]]

\* ------------------------------------------------------ the Entry object
\* The optional attributes that exist on an Entry only once something set
\* them (hasattr): a set that is empty (absent) or holds the one value.
CreatorFields ==
    {"creator_device_agent", "creator_generation_date", "creator_host_name",
     "creator_os_agent", "creator_software_agent"}

MetaFields ==
    CreatorFields \cup {"location", "weather"}

NoMeta ==
    [f \in MetaFields |-> {}]

\* An Entry built without a date has no creation instant.
NoDate == -1

\* Tags found in a line of entry text by the Entry collaborator.
TagsInLine(line) ==
    IF line = "b@x" THEN {"@x"} ELSE {}

TagsInText(lines) ==
    UNION {TagsInLine(lines[i]) : i \in DOMAIN lines}

RECURSIVE RStrip(_)
\* str.rstrip() on a body kept as a sequence of lines: trailing blank lines go.
RStrip(lines) ==
    IF lines # << >> /\ lines[Len(lines)] = ""
    THEN RStrip(SubSeq(lines, 1, Len(lines) - 1))
    ELSE lines

\* Entry.Entry(journal, date, text, starred): title and body are derived
\* from the combined text, first line the title, the rest the body.
NewEntry(date, text, starred) ==
    [uuid |-> "", date |-> date,
     title |-> IF text = << >> THEN "" ELSE Head(text),
     body |-> IF text = << >> THEN << >> ELSE Tail(text),
     starred |-> starred, tags |-> {}, meta |-> NoMeta, modified |-> FALSE]

\* Entry._parse_text(): title, body and tags re-derived from the combined text.
ParseText(e) ==
    LET text == IF e.title = "" THEN e.body ELSE <<e.title>> \o e.body
    IN  [e EXCEPT !.title = IF text = << >> THEN "" ELSE Head(text),
                  !.body = IF text = << >> THEN << >> ELSE Tail(text),
                  !.tags = TagsInText(text)]

\* Entry.__eq__: equality of the content of two entries; the transient
\* modified flag is not content and identities compare case-insensitively.
EntryEq(a, b) ==
    /\ Lower(a.uuid) = Lower(b.uuid)
    /\ a.date = b.date
    /\ a.title = b.title
    /\ RStrip(a.body) = RStrip(b.body)
    /\ a.starred = b.starred
    /\ a.tags = b.tags
    /\ a.meta = b.meta

RECURSIVE InsertByDate(_, _)
\* Journal.sort(): a stable sort of the entries by date.
InsertByDate(sorted, e) ==
    IF sorted = << >> \/ sorted[Len(sorted)].date <= e.date
    THEN Append(sorted, e)
    ELSE Append(InsertByDate(SubSeq(sorted, 1, Len(sorted) - 1), e),
                sorted[Len(sorted)])

RECURSIVE SortByDate(_)
SortByDate(es) ==
    IF es = << >> THEN << >>
    ELSE InsertByDate(SortByDate(SubSeq(es, 1, Len(es) - 1)), es[Len(es)])

\* ---------------------------------------------------------- the directory
Dirs ==
    {"entries", "backup"}

Names ==
    {"A1", "a1", "22"}

Paths ==
    Dirs \X Names

NoFile ==
    [kind |-> "none"]

Corrupt ==
    [kind |-> "corrupt"]

\* A file that parses as a plist but whose dictionary has no "Creation Date".
Keyless ==
    [kind |-> "keyless"]

CreatorKeys ==
    {"Device Agent", "Generation Date", "Host Name", "OS Agent", "Software Agent"}

NoCreator ==
    [k \in CreatorKeys |-> {}]

FullCreator ==
    [k \in CreatorKeys |-> IF k = "Generation Date" THEN {0} ELSE {"ios"}]

Plist(uuid, date, text, starred, tz, tags, creator, location, weather) ==
    [kind |-> "plist", UUID |-> uuid, CreationDate |-> date, EntryText |-> text,
     Starred |-> starred, TimeZone |-> tz, Tags |-> tags, Creator |-> creator,
     Location |-> location, Weather |-> weather]

\* The record files a journal directory may hold when the session starts.
RecordPool ==
    {Plist("A1", 1, <<"t1">>, FALSE, "UTC", {}, [NoCreator EXCEPT !["Host Name"] = {"mac"}],
           {"home"}, {}),
     Plist("22", 2, <<"t2", "b@x">>, TRUE, "Z1", {"X"}, FullCreator, {}, {"sun"}),
     Plist("a1", 2, <<"t1">>, FALSE, "", {}, NoCreator, {}, {})}

\* pytz zones: the offset (in hours) of each zone the model knows.
ZoneOffset(zone) ==
    CASE zone = "Z1" -> 1
      [] zone = "ZM1" -> -1
      [] OTHER -> 0

\* Z0 is a zone other than UTC whose offset is zero (such as GMT).
KnownZones ==
    {"UTC", "Z0", "Z1", "ZM1"}

\* ----------------------------------------------------------------- state
VARIABLES
    disk,             \* the journal directory: path -> file content
    entries,          \* self.entries
    deleted_entries,  \* self._deleted_entries
    err,              \* the exception the last operation raised, or "none"
    fsCaseSensitive,  \* whether the file system tells "a1" from "A1"
    hostZone,         \* tzlocal.get_localzone()
    origin,           \* the journal directory as the session found it
    edits,            \* documents that came back changed so far
    lastOp,           \* the operation performed last: open, parse, write
    prevEntries,      \* self.entries when the last parse or write started
    parsed,           \* what parse_editable_str returned, if it ran last
    docSrc,           \* where its document came from: rendered, edited, typed
    preamble,         \* the lines of that document before its first header
    written,          \* the paths write() wrote a record to, if it ran last
    removed,          \* the paths write() removed, if it ran last
    dropped           \* the entries parse_editable_str calls dropped since
                      \* the last open() or write(): what the next write() owes

vars ==
    <<disk, entries, deleted_entries, err, fsCaseSensitive, hostZone, origin,
      edits, lastOp, prevEntries, parsed, docSrc, preamble, written, removed,
      dropped>>

env ==
    <<fsCaseSensitive, hostZone, origin>>

\* The name under which the file system keeps a file.
FileKey(name) ==
    IF fsCaseSensitive THEN name ELSE Upper(name)

\* The paths that may hold a record file before the session starts.
InitPaths ==
    {<<"entries", "A1">>, <<"entries", "22">>, <<"backup", "A1">>}

\* The directories of at most MaxFiles files with contents from pool.
InitialDisks(pool) ==
    {d \in [Paths -> pool \cup {NoFile}] :
        /\ \A p \in Paths \ InitPaths : d[p] = NoFile
        /\ Cardinality({p \in InitPaths : d[p] # NoFile}) <= MaxFiles}

\* DayOne.__init__: both lists start empty; the directory is what it is.
\* Here every file is a well-formed record and the host is in zone Z1.
Init ==
    /\ disk \in InitialDisks(RecordPool)
    /\ fsCaseSensitive \in BOOLEAN
    /\ hostZone = "Z1"
    /\ origin = disk
    /\ entries = << >>
    /\ deleted_entries = << >>
    /\ err = "none"
    /\ edits = 0
    /\ lastOp = "init"
    /\ prevEntries = << >>
    /\ parsed = << >>
    /\ docSrc = "none"
    /\ preamble = << >>
    /\ written = {}
    /\ removed = {}
    /\ dropped = {}

\* The files a directory written by other programs may hold: records in
\* several time zones, with and without the optional keys, a file that is
\* no plist and a plist without its "Creation Date".
LoadPool ==
    {Plist("22", 10, <<"t2", "b">>, FALSE, "Z1", {"X"}, FullCreator, {"home"}, {"sun"}),
     Plist("22", 10, <<"t2", "b">>, FALSE, "ZM1", {}, NoCreator, {}, {}),
     Plist("A1", 20, <<"t1", "b">>, TRUE, "Z0", {},
           [FullCreator EXCEPT !["Generation Date"] = {}], {}, {"sun"}),
     Corrupt,
     Keyless}

\* The zones the host may be in.
HostZones ==
    {"UTC", "Z1", "ZM1"}

\* DayOne.__init__ on a directory of any files, on a host in any zone.
InitLoad ==
    /\ disk \in InitialDisks(LoadPool)
    /\ fsCaseSensitive = TRUE
    /\ hostZone \in HostZones
    /\ origin = disk
    /\ entries = << >>
    /\ deleted_entries = << >>
    /\ err = "none"
    /\ edits = 0
    /\ lastOp = "init"
    /\ prevEntries = << >>
    /\ parsed = << >>
    /\ docSrc = "none"
    /\ preamble = << >>
    /\ written = {}
    /\ removed = {}
    /\ dropped = {}

\* ------------------------------------------------------------------ open
\* Tags are lower-cased and prefixed with the tag symbol.
DecodeTag(t) ==
    IF t = "X" \/ t = "x" THEN "@x" ELSE t

\* The attribute each record key is read into.
CreatorKeyOf(f) ==
    CASE f = "creator_device_agent" -> "Device Agent"
      [] f = "creator_generation_date" -> "Generation Date"
      [] f = "creator_host_name" -> "Host Name"
      [] f = "creator_os_agent" -> "OS Agent"
      [] f = "creator_software_agent" -> "Software Agent"

\* Decode giving a record without a host name the name of this host.
DecodeDefaultingHost(rec) ==
    LET zone == IF rec.TimeZone \in KnownZones THEN rec.TimeZone ELSE hostZone
        date == IF zone # "UTC"
                THEN rec.CreationDate + ZoneOffset(zone)
                ELSE rec.CreationDate
        e == NewEntry(date, rec.EntryText, rec.Starred)
    IN  [e EXCEPT
            !.uuid = rec.UUID,
            !.tags = {DecodeTag(t) : t \in rec.Tags},
            !.meta = [f \in MetaFields |->
                        IF f = "location" THEN rec.Location
                        ELSE IF f = "weather" THEN rec.Weather
                        ELSE IF f = "creator_generation_date"
                                /\ rec.Creator[CreatorKeyOf(f)] = {}
                             THEN {date}
                        ELSE IF f = "creator_host_name"
                                /\ rec.Creator[CreatorKeyOf(f)] = {}
                             THEN {"host"}
                        ELSE rec.Creator[CreatorKeyOf(f)]]]

\* One record decoded into an Entry (the else branch of the load loop).
Decode(rec) ==
    LET zone == IF rec.TimeZone \in KnownZones THEN rec.TimeZone ELSE hostZone
        date == IF zone # "UTC"
                THEN rec.CreationDate + ZoneOffset(zone)
                ELSE rec.CreationDate
        e == NewEntry(date, rec.EntryText, rec.Starred)
    IN  [e EXCEPT
            !.uuid = rec.UUID,
            !.tags = {DecodeTag(t) : t \in rec.Tags},
            !.meta = [f \in MetaFields |->
                        IF f = "location" THEN rec.Location
                        ELSE IF f = "weather" THEN rec.Weather
                        ELSE IF f = "creator_generation_date"
                                /\ rec.Creator[CreatorKeyOf(f)] = {}
                             THEN {date}
                        ELSE rec.Creator[CreatorKeyOf(f)]]]

RECURSIVE LoadAll(_)
\* The load loop over the discovered files, in discovery order: a file
\* that is no plist is skipped.
LoadAll(files) ==
    IF files = << >> THEN << >>
    ELSE LET rest == LoadAll(SubSeq(files, 1, Len(files) - 1))
             rec == disk[files[Len(files)]]
         IN  IF rec.kind = "plist" THEN Append(rest, Decode(rec)) ELSE rest

\* OpenResult without self.sort().
OpenResultUnsorted(files) ==
    LoadAll(files)

\* self.entries after open(), for one order of discovery.
OpenResult(files) ==
    SortByDate(LoadAll(files))

\* The first discovered file whose dictionary lacks a key the loop reads
\* unguarded (line 58): the load stops there with a KeyError. 0 if none.
FirstKeyless(files) ==
    FirstOf({i \in DOMAIN files : disk[files[i]].kind = "keyless"})

\* open(): os.walk finds every *.doentry under the journal root, in an
\* order the file system chooses. When a record stops the load, entries
\* holds what was decoded before it, unsorted.
Open ==
    /\ \E files \in Perms({p \in Paths : disk[p] # NoFile}) :
            LET bad == FirstKeyless(files)
            IN  IF bad = 0
                THEN entries' = OpenResult(files) /\ err' = "none"
                ELSE /\ entries' = LoadAll(SubSeq(files, 1, bad - 1))
                     /\ err' = "KeyError"
    /\ lastOp' = "open"
    /\ prevEntries' = << >>
    /\ parsed' = << >>
    /\ docSrc' = "none"
    /\ preamble' = << >>
    /\ written' = {}
    /\ removed' = {}
    /\ dropped' = {}
    /\ UNCHANGED <<disk, deleted_entries, env, edits>>

\* ----------------------------------------------------------------- write
\* Tags lose the tag symbol (and underscores become spaces).
EncodeTag(t) ==
    IF t = "@x" THEN "x" ELSE t

\* datetime.utcfromtimestamp(time.mktime(entry.date.timetuple())): the
\* entry's date, read as host-local time, as a UTC instant.
UtcTime(e) ==
    e.date - ZoneOffset(hostZone)

\* The attributes write() sets on a modified entry that lacks them.
DefaultMeta(e, f) ==
    CASE f = "creator_device_agent" -> {""}
      [] f = "creator_generation_date" -> {UtcTime(e)}
      [] f = "creator_host_name" -> {"host"}
      [] f = "creator_os_agent" -> {"os"}
      [] f = "creator_software_agent" -> {"jrnl"}
      [] OTHER -> {}

Defaulted(e) ==
    [e EXCEPT !.meta = [f \in MetaFields |->
                          IF e.meta[f] = {} THEN DefaultMeta(e, f) ELSE e.meta[f]]]

\* The file write() writes an entry to.
WritePath(e) ==
    <<"entries", FileKey(Upper(e.uuid))>>

\* The file write() removes for an entry of self._deleted_entries.
RemovePath(e) ==
    <<"entries", FileKey(e.uuid)>>

\* The plist write() dumps for an entry (after the defaults are set).
Encode(e) ==
    Plist(Upper(e.uuid), UtcTime(e), <<e.title>> \o e.body, e.starred, hostZone,
          {EncodeTag(t) : t \in e.tags},
          [k \in CreatorKeys |->
              e.meta[CHOOSE f \in CreatorFields : CreatorKeyOf(f) = k]],
          e.meta["location"], e.meta["weather"])

\* ToBeWritten without the test of entry.modified.
ToBeWrittenAlways(e) ==
    TRUE

\* Whether write() dumps this entry.
ToBeWritten(e) ==
    e.modified

RECURSIVE WriteLoop(_, _)
\* The first loop of write(), from entry i on. st holds the directory, the
\* entries (write() sets defaults on the entries it dumps), the paths
\* written so far and the exception raised.
WriteLoop(st, i) ==
    IF i > Len(st.entries) THEN st
    ELSE LET e == st.entries[i]
         IN  IF ~ToBeWritten(e) THEN WriteLoop(st, i + 1)
             ELSE IF e.date = NoDate THEN [st EXCEPT !.err = "AttributeError"]
             ELSE LET d == Defaulted(e)
                  IN  WriteLoop([st EXCEPT !.entries[i] = d,
                                           !.disk[WritePath(d)] = Encode(d),
                                           !.written = @ \cup {WritePath(d)}],
                                i + 1)

RECURSIVE RemoveLoop(_, _)
\* The second loop of write(), from deleted entry j on: os.remove raises
\* when the file is not there.
RemoveLoop(st, j) ==
    IF j > Len(deleted_entries) THEN st
    ELSE LET p == RemovePath(deleted_entries[j])
         IN  IF st.disk[p] = NoFile THEN [st EXCEPT !.err = "FileNotFoundError"]
             ELSE RemoveLoop([st EXCEPT !.disk[p] = NoFile,
                                        !.removed = @ \cup {p}],
                             j + 1)

WriteResult ==
    LET st0 == [disk |-> disk, entries |-> entries, written |-> {},
                removed |-> {}, err |-> "none"]
        st1 == WriteLoop(st0, 1)
    IN  IF st1.err # "none" THEN st1 ELSE RemoveLoop(st1, 1)

\* write(): dump the modified entries, then remove the files of the
\* deleted ones.
Write ==
    /\ LET st == WriteResult
       IN  /\ disk' = st.disk
           /\ entries' = st.entries
           /\ written' = st.written
           /\ removed' = st.removed
           /\ err' = st.err
    /\ lastOp' = "write"
    /\ prevEntries' = entries
    /\ parsed' = << >>
    /\ docSrc' = "none"
    /\ preamble' = << >>
    /\ UNCHANGED <<deleted_entries, env, edits, dropped>>

\* ------------------------------------------------------- the edited text
\* A line of the editable document: a "# <identity>" header, a line that
\* opens with a bracketed timestamp ("[date] title", " *" when starred),
\* or any other line.
Hdr(id) ==
    [kind |-> "hdr", id |-> id]

DateLine(date, title, star) ==
    [kind |-> "date", date |-> date, title |-> title, star |-> star]

TextLine(t) ==
    [kind |-> "text", text |-> t]

\* Entry.__str__: the timestamp line, then the body without its trailing
\* blank lines.
EntryStr(e) ==
    LET body == RStrip(e.body)
    IN  <<DateLine(e.date, e.title, e.starred)>>
            \o [i \in 1..Len(body) |-> TextLine(body[i])]

RECURSIVE JoinEntries(_)
\* "\n".join of the blocks, each block ending in a newline of its own: a
\* blank line separates two blocks.
JoinEntries(es) ==
    IF es = << >> THEN << >>
    ELSE LET block == <<Hdr(es[Len(es)].uuid)>> \o EntryStr(es[Len(es)])
         IN  IF Len(es) = 1 THEN block
             ELSE JoinEntries(SubSeq(es, 1, Len(es) - 1)) \o <<TextLine("")>> \o block

\* editable_str(): the lines of the document rendered from self.entries.
editable_str ==
    JoinEntries(entries)

\* re.match("# *([a-f0-9]+) *$", line.lower())
IsHeader(line) ==
    line.kind = "hdr"

\* The line is right-stripped before "^\[[^\]]+\] " is tried on it, so a
\* timestamp with nothing after it is not taken for a timestamp line.
IsDateLine(line) ==
    line.kind = "date" /\ (line.title # "" \/ line.star)

\* The text of a line that is neither a header nor a timestamp line.
LineText(line) ==
    IF line.kind = "date" THEN "[" \o ToString(line.date) \o "]" ELSE line.text

\* The identity a header line gives its candidate.
HeaderId(line) ==
    Lower(line.id)

\* One step of the scan over the lines. sc.cur is current_entry: empty
\* while it is None.
ScanLine(sc, line) ==
    IF sc.err # "none" THEN sc
    ELSE IF IsHeader(line)
    THEN [sc EXCEPT !.entries = @ \o sc.cur,
                    !.cur = <<[NewEntry(NoDate, << >>, FALSE) EXCEPT
                                  !.uuid = HeaderId(line)]>>]
    ELSE IF IsDateLine(line)
    THEN IF sc.cur = << >> THEN [sc EXCEPT !.err = "AttributeError"]
         ELSE [sc EXCEPT !.cur[1].starred = IF line.star THEN TRUE ELSE @,
                         !.cur[1].title = line.title,
                         !.cur[1].date = line.date]
    ELSE IF sc.cur # << >>
    THEN [sc EXCEPT !.cur[1].body = Append(@, LineText(line))]
    ELSE sc

RECURSIVE Scan(_)
Scan(doc) ==
    IF doc = << >> THEN [entries |-> << >>, cur |-> << >>, err |-> "none"]
    ELSE ScanLine(Scan(SubSeq(doc, 1, Len(doc) - 1)), doc[Len(doc)])

\* The candidates of a document: the scan, then the last entry appended.
Candidates(doc) ==
    LET sc == Scan(doc)
    IN  [entries |-> sc.entries \o sc.cur, err |-> sc.err]

\* ----------------------------------------------------- parse_editable_str
\* e.uuid.lower() == entry.uuid.lower()
Matches(e, c) ==
    Lower(e.uuid) = Lower(c.uuid)

\* The tags and the extended attributes a candidate takes from its match.
MergeFromMatch(c, m) ==
    [c EXCEPT !.tags = c.tags \cup m.tags,
              !.meta = [f \in MetaFields |->
                          IF m.meta[f] # {} THEN m.meta[f] ELSE c.meta[f]]]

\* ReplaceMatch without self.entries.remove(match).
ReplaceMatchKeeping(work, m, c) ==
    Append(work, [c EXCEPT !.modified = TRUE])

\* ReplaceMatch writing the candidate's content onto the match instead.
ReplaceMatchInPlace(work, m, c) ==
    [work EXCEPT ![FirstOf({i \in DOMAIN work : EntryEq(work[i], m)})] =
        [c EXCEPT !.uuid = m.uuid, !.modified = TRUE]]

\* A candidate that differs from its match takes its place, at the end.
ReplaceMatch(work, m, c) ==
    Append(RemoveAt(work, FirstOf({i \in DOMAIN work : EntryEq(work[i], m)})),
           [c EXCEPT !.modified = TRUE])

\* AddNew without the flag: the new entry would never be written.
AddNewUnflagged(work, c) ==
    Append(work, c)

\* A candidate that matches nothing is a new entry.
AddNew(work, c) ==
    Append(work, [c EXCEPT !.modified = TRUE])

\* One round of the loop over the candidates. rs.work is self.entries,
\* rs.cands the candidates as the loop leaves them.
ReconcileOne(rs, c0) ==
    LET c == ParseText(c0)
        i == FirstOf({j \in DOMAIN rs.work : Matches(rs.work[j], c)})
    IN  IF i # 0
        THEN LET m == rs.work[i]
                 c2 == MergeFromMatch(c, m)
             IN  IF ~EntryEq(m, c2)
                 THEN [work |-> ReplaceMatch(rs.work, m, c2),
                       cands |-> Append(rs.cands, [c2 EXCEPT !.modified = TRUE])]
                 ELSE [work |-> rs.work, cands |-> Append(rs.cands, c2)]
        ELSE [work |-> AddNew(rs.work, c),
              cands |-> Append(rs.cands, [c EXCEPT !.modified = TRUE])]

RECURSIVE Reconcile(_, _)
Reconcile(work, cands) ==
    IF cands = << >> THEN [work |-> work, cands |-> << >>]
    ELSE ReconcileOne(Reconcile(work, SubSeq(cands, 1, Len(cands) - 1)),
                      cands[Len(cands)])

\* edited_uuids = [e.uuid for e in entries]; e.uuid in edited_uuids
InEdited(e, cands) ==
    e.uuid \in {cands[i].uuid : i \in DOMAIN cands}

\* parse_editable_str(edited): the state it leaves and what it returns.
ParseResult(doc) ==
    LET sc == Candidates(doc)
        rs == Reconcile(entries, sc.entries)
    IN  IF sc.err # "none"
        THEN [entries |-> entries, deleted |-> deleted_entries,
              parsed |-> << >>, err |-> sc.err]
        ELSE [entries |-> SelectSeq(rs.work, LAMBDA e : InEdited(e, rs.cands)),
              deleted |-> SelectSeq(rs.work, LAMBDA e : ~InEdited(e, rs.cands)),
              parsed |-> rs.cands, err |-> "none"]

\* The lines of a document that come before its first header line.
Preamble(doc) ==
    LET hs == {i \in DOMAIN doc : IsHeader(doc[i])}
    IN  IF hs = {} THEN doc ELSE SubSeq(doc, 1, FirstOf(hs) - 1)

parse_editable_str(doc, src) ==
    /\ LET r == ParseResult(doc)
       IN  /\ entries' = r.entries
           /\ deleted_entries' = r.deleted
           /\ parsed' = r.parsed
           /\ err' = r.err
           /\ dropped' = (IF lastOp = "write" THEN {} ELSE dropped)
                             \cup (IF r.err = "none" THEN Range(r.deleted) ELSE {})
    /\ lastOp' = "parse"
    /\ docSrc' = src
    /\ preamble' = Preamble(doc)
    /\ prevEntries' = entries
    /\ written' = {}
    /\ removed' = {}
    /\ UNCHANGED <<disk, env>>

\* The lines a user may type over a line of the document.
LineAlphabet ==
    {Hdr("22"), DateLine(1, "t2", FALSE), TextLine("b@x")}

\* The entries a user may type at the end of the document.
NewBlocks ==
    {<<Hdr("a1"), DateLine(2, "t1", FALSE)>>, <<Hdr("22"), DateLine(1, "t2", TRUE)>>}

\* The lines of the block that starts at header line i.
BlockEnd(doc, i) ==
    LET later == {j \in DOMAIN doc : j > i /\ IsHeader(doc[j])}
    IN  IF later = {} THEN Len(doc)
        ELSE (CHOOSE j \in later : \A k \in later : j <= k) - 1

\* The documents one edit away from doc: a line typed over, a line
\* deleted, an entry deleted with all its lines, an entry typed at the end.
OneEdit(doc) ==
    {[doc EXCEPT ![i] = l] : i \in DOMAIN doc, l \in LineAlphabet}
        \cup {RemoveAt(doc, i) : i \in DOMAIN doc}
        \cup {SubSeq(doc, 1, i - 1) \o SubSeq(doc, BlockEnd(doc, i) + 1, Len(doc)) :
                 i \in {k \in DOMAIN doc : IsHeader(doc[k])}}
        \cup {doc \o b : b \in NewBlocks}

\* Every entry can be rendered: strftime needs a date.
Renderable ==
    \A i \in DOMAIN entries : entries[i].date # NoDate

\* parse_editable_str(editable_str()): the document comes back untouched.
RoundTrip ==
    /\ Renderable
    /\ parse_editable_str(editable_str, "rendered")
    /\ UNCHANGED edits

\* The documents that may come back changed in one session: a session
\* that starts on an empty journal is followed for one edit more.
EditBudget ==
    IF \A p \in Paths : origin[p] = NoFile THEN MaxEdits + 1 ELSE MaxEdits

\* The rendered document comes back with one edit.
EditAndParse ==
    /\ Renderable
    /\ edits < EditBudget
    /\ \E doc \in OneEdit(editable_str) \ {editable_str} :
            parse_editable_str(doc, "edited")
    /\ edits' = edits + 1

Next ==
    \/ Open
    \/ Write
    \/ RoundTrip
    \/ EditAndParse

Spec ==
    Init /\ [][Next]_vars

\* The same operations on a directory of any files, on a host in any zone.
SpecLoad ==
    InitLoad /\ [][Next]_vars

\* ---------------------------------------------------------------- claims
\* The identities of a list of entries, case folded.
Ids(es) ==
    {Lower(es[i].uuid) : i \in DOMAIN es}

\* No two entries of the list share an identity.
UniqueIds(es) ==
    \A i, j \in DOMAIN es : Lower(es[i].uuid) = Lower(es[j].uuid) => i = j

\* parse_editable_str ran last and returned.
Parsed ==
    lastOp = "parse" /\ err = "none"

\* The identities of the headers of the document parsed last.
HeaderIds ==
    {parsed[k].uuid : k \in DOMAIN parsed}

\* The document parsed last names no identity twice.
HeadersDistinct ==
    \A k, l \in DOMAIN parsed : parsed[k].uuid = parsed[l].uuid => k = l

Sorted(es) ==
    \A i, j \in DOMAIN es : i < j => es[i].date <= es[j].date

\* C1: parsing the rendered text of a store that came from load, with no
\* pending edits, leaves entries as it was (content and order), marks
\* nothing modified and deletes nothing.
C1_RoundTrip ==
    (/\ Parsed
     /\ docSrc = "rendered"
     /\ \A i \in DOMAIN prevEntries : ~prevEntries[i].modified)
        => /\ entries = prevEntries
           /\ deleted_entries = << >>
           /\ \A i \in DOMAIN entries : ~entries[i].modified

\* C2: with pairwise distinct previous identities, _deleted_entries is
\* exactly the previous entries whose identity no header names, and
\* entries holds exactly one entry per header identity.
C2_DeletionDetection ==
    (Parsed /\ UniqueIds(prevEntries))
        => /\ Range(deleted_entries) =
                 {prevEntries[i] : i \in {j \in DOMAIN prevEntries :
                                             Lower(prevEntries[j].uuid) \notin HeaderIds}}
           /\ Ids(entries) = HeaderIds
           /\ Len(entries) = Cardinality(HeaderIds)

\* C3: a candidate that differs from the previous entry of its identity
\* replaces it, flagged modified; a candidate equal to it is discarded and
\* the previous entry stays in entries as it was.
C3_ModificationDetection ==
    (Parsed /\ UniqueIds(prevEntries) /\ HeadersDistinct)
        => \A k \in DOMAIN parsed : \A i \in DOMAIN prevEntries :
              Matches(prevEntries[i], parsed[k])
                  => IF EntryEq(prevEntries[i], parsed[k])
                     THEN /\ prevEntries[i] \in Range(entries)
                          /\ Cardinality({j \in DOMAIN entries :
                                             Matches(entries[j], parsed[k])}) = 1
                     ELSE /\ [parsed[k] EXCEPT !.modified = TRUE] \in Range(entries)
                          /\ prevEntries[i] \notin Range(entries)

\* The candidates of the last document whose identity no previous entry had.
NewCandidates ==
    {k \in DOMAIN parsed :
        \A i \in DOMAIN prevEntries : ~Matches(prevEntries[i], parsed[k])}

\* C4: a header identity that no previous entry has gives exactly one entry
\* of that identity, flagged modified, with no extended attribute; it was
\* appended, so only candidates (flagged modified) come after it.
C4_NewEntry ==
    Parsed
        => \A k \in NewCandidates :
              LET at == {i \in DOMAIN entries : entries[i].uuid = parsed[k].uuid}
              IN  /\ Cardinality(at) = 1
                  /\ \A i \in at :
                        /\ entries[i].modified
                        /\ entries[i].meta = NoMeta
                        /\ \A j \in DOMAIN entries : j > i => entries[j].modified

\* C4 happens: next to previous entries that carry extended attributes, a
\* header brought an identity none of them has.
C4_Witness ==
    /\ Parsed
    /\ NewCandidates # {}
    /\ \E i \in DOMAIN entries :
          entries[i] \in Range(prevEntries) /\ entries[i].meta # NoMeta

\* C5 as claimed: no two entries ever share an identity.
C5_IdentityUnique ==
    UniqueIds(entries)

\* The well-formed record files under the journal root.
PlistFiles ==
    {p \in Paths : disk[p].kind = "plist"}

\* C5 as it holds: parse_editable_str and write() never make two entries
\* share an identity; open() makes one entry per well-formed record found
\* under the journal root, each with the identity its record carries.
C5_UniquenessPreserved ==
    /\ (lastOp \in {"parse", "write"} /\ UniqueIds(prevEntries)) => UniqueIds(entries)
    /\ lastOp = "open"
          => /\ Len(entries) = Cardinality(PlistFiles)
             /\ {entries[i].uuid : i \in DOMAIN entries}
                    = {disk[p].UUID : p \in PlistFiles}

\* C5 happens: a document that names an identity twice was reconciled
\* against entries of distinct identities.
C5_Witness ==
    /\ Parsed
    /\ UniqueIds(prevEntries)
    /\ Len(prevEntries) >= 2
    /\ ~HeadersDistinct
    /\ Len(entries) >= 2

\* The record files under the journal root carry pairwise distinct UUIDs.
DistinctRecords ==
    \A p, q \in PlistFiles : Lower(disk[p].UUID) = Lower(disk[q].UUID) => p = q

\* C6: no entry awaiting removal shares its identity with an entry of
\* entries (stated for journals whose records have distinct identities).
C6_TombstonesDisjoint ==
    DistinctRecords => Ids(deleted_entries) \cap Ids(entries) = {}

\* C7: when write() has returned, _deleted_entries is empty.
C7_TombstonesCleared ==
    (lastOp = "write" /\ err = "none") => deleted_entries = << >>

\* C8: when write() has returned, the record file of every entry that a
\* parse_editable_str call dropped since the write before is gone (unless
\* an entry of that identity is back in entries).
C8_DroppedAreRemoved ==
    (lastOp = "write" /\ err = "none")
        => \A e \in dropped :
              Lower(e.uuid) \notin Ids(entries) => disk[WritePath(e)] = NoFile

\* Every entry has a date to be ordered by.
AllDated ==
    \A i \in DOMAIN entries : entries[i].date # NoDate

\* C9 as claimed: entries is in ascending order of date after open() and
\* after parse_editable_str().
C9_SortedAfterOpenAndParse ==
    ((lastOp = "open" \/ Parsed) /\ AllDated) => Sorted(entries)

\* C9 as it holds: entries is in ascending order of date after open().
C9_SortedAfterOpen ==
    lastOp = "open" => Sorted(entries)

\* C9 happens: open() loaded entries of different dates.
C9_Witness ==
    /\ lastOp = "open"
    /\ \E i, j \in DOMAIN entries : entries[i].date < entries[j].date

\* The paths of the entries flagged modified when write() started.
ModifiedPaths ==
    {WritePath(prevEntries[i]) : i \in {j \in DOMAIN prevEntries : prevEntries[j].modified}}

\* C10 as claimed: write() writes the files of the entries flagged
\* modified and no other; the file of an unflagged entry is not written.
C10_SelectiveSave ==
    (lastOp = "write" /\ err = "none")
        => /\ written = ModifiedPaths
           /\ \A i \in DOMAIN prevEntries :
                 ~prevEntries[i].modified => WritePath(prevEntries[i]) \notin written

\* C10 as it holds: write() writes only files of entries flagged modified,
\* all of them unless an entry without a date stops it; the file of an
\* unflagged entry is written only when a flagged entry shares its identity.
C10_SelectiveSaveUnlessShared ==
    lastOp = "write"
        => /\ written \subseteq ModifiedPaths
           /\ err # "AttributeError" => written = ModifiedPaths
           /\ \A i \in DOMAIN prevEntries :
                 (/\ ~prevEntries[i].modified
                  /\ WritePath(prevEntries[i]) \in written)
                     => \E j \in DOMAIN prevEntries :
                           /\ prevEntries[j].modified
                           /\ Matches(prevEntries[j], prevEntries[i])

\* C10 happens: write() returned having written the file of a flagged
\* entry and left alone the file of an unflagged one.
C10_Witness ==
    /\ lastOp = "write"
    /\ err = "none"
    /\ written # {}
    /\ \E i \in DOMAIN prevEntries :
          ~prevEntries[i].modified /\ WritePath(prevEntries[i]) \notin written

\* open() ran last and returned.
Opened ==
    lastOp = "open" /\ err = "none"

\* C11: open() never fails because of one bad record file: it returns, and
\* entries holds one entry per well-formed record.
C11_LoadResilience ==
    lastOp = "open"
        => /\ err = "none"
           /\ Len(entries) = Cardinality(PlistFiles)

\* C12: a record in a recognised zone other than UTC, loaded by open() and
\* written back by write() with the date it was loaded with, keeps the UTC
\* instant of its "Creation Date".
C12_CreationDateInverse ==
    (lastOp = "write" /\ err = "none" /\ UniqueIds(prevEntries))
        => \A i \in DOMAIN prevEntries : \A q \in Paths :
              (/\ prevEntries[i].modified
               /\ origin[q].kind = "plist"
               /\ origin[q].TimeZone \in KnownZones \ {"UTC"}
               /\ Upper(origin[q].UUID) = Upper(prevEntries[i].uuid)
               /\ prevEntries[i].date = origin[q].CreationDate
                                            + ZoneOffset(origin[q].TimeZone))
                  => disk[WritePath(prevEntries[i])].CreationDate
                         = origin[q].CreationDate

\* The file write() writes an entry to was written in this session: the
\* session found no file there, and one is there or was just removed.
WrittenThisSession(e) ==
    /\ origin[WritePath(e)] = NoFile
    /\ disk[WritePath(e)] # NoFile \/ WritePath(e) \in removed

\* C13: the file write() removes for an entry of _deleted_entries is the
\* file write() writes an entry of that identity to, so that an entry
\* written in this session and dropped later is removed without a
\* missing-file error.
C13_DeletePathIsWritePath ==
    lastOp = "write"
        => \A j \in DOMAIN deleted_entries :
              WrittenThisSession(deleted_entries[j])
                  => /\ RemovePath(deleted_entries[j]) = WritePath(deleted_entries[j])
                     /\ disk[WritePath(deleted_entries[j])] # NoFile
                            => err # "FileNotFoundError"

\* C14: a document with lines before its first header, timestamp lines
\* among them or not, is parsed without error.
C14_PreambleDiscarded ==
    (lastOp = "parse" /\ preamble # << >>) => err = "none"

\* C15: for every candidate matched to a previous entry, the entry of that
\* identity in entries after parse_editable_str has every extended
\* attribute as the match had it, present with the same value or absent,
\* whether the candidate replaced the match or was discarded.
C15_MetadataPreserved ==
    (Parsed /\ UniqueIds(prevEntries))
        => \A k \in DOMAIN parsed : \A i \in DOMAIN prevEntries :
              Matches(prevEntries[i], parsed[k])
                  => \E j \in DOMAIN entries :
                        /\ Matches(entries[j], parsed[k])
                        /\ entries[j].meta = prevEntries[i].meta

\* The tags in the text of a candidate, as typed in the document.
TypedTags(c) ==
    TagsInText(<<c.title>> \o c.body)

\* C16: for every candidate matched to a previous entry, the entry of that
\* identity in entries after parse_editable_str has the tags of the
\* candidate's text together with the tags of the match, so no tag is lost.
C16_TagUnion ==
    (Parsed /\ UniqueIds(prevEntries) /\ HeadersDistinct)
        => \A k \in DOMAIN parsed : \A i \in DOMAIN prevEntries :
              Matches(prevEntries[i], parsed[k])
                  => \E j \in DOMAIN entries :
                        /\ Matches(entries[j], parsed[k])
                        /\ entries[j].tags = TypedTags(parsed[k]) \cup prevEntries[i].tags

\* The previous entry is gone from both lists: a candidate took its place.
Replaced(e) ==
    e \notin Range(entries) /\ e \notin Range(deleted_entries)

\* C18: parse_editable_str writes to no previous entry: each is still in
\* entries as it was, or moved as it was into _deleted_entries, or replaced
\* in entries by a candidate of its identity; every entry of the two lists
\* is a previous entry as it was or a candidate made by the call, and a
\* call that raises leaves entries as it was.
C18_PreviousEntriesUntouched ==
    /\ Parsed
          => /\ \A i \in DOMAIN prevEntries :
                    Replaced(prevEntries[i])
                        => \E j \in DOMAIN entries :
                              /\ entries[j] \in Range(parsed)
                              /\ entries[j].modified
                              /\ Matches(entries[j], prevEntries[i])
             /\ Range(deleted_entries) \subseteq Range(prevEntries)
             /\ Range(entries) \subseteq Range(prevEntries) \cup Range(parsed)
    /\ (lastOp = "parse" /\ err # "none") => entries = prevEntries

\* C18 happens: of the previous entries one was replaced by its candidate
\* and another was kept in entries or moved to _deleted_entries.
C18_Witness ==
    /\ Parsed
    /\ \E i \in DOMAIN prevEntries : Replaced(prevEntries[i])
    /\ \E i \in DOMAIN prevEntries :
          prevEntries[i] \in Range(entries) \/ prevEntries[i] \in Range(deleted_entries)

\* The optional key of a record that an attribute of the entry is read from.
RecordField(rec, f) ==
    IF f = "location" THEN rec.Location
    ELSE IF f = "weather" THEN rec.Weather
    ELSE rec.Creator[CreatorKeyOf(f)]

\* The entry came from the record: identity, text and star are the record's.
DecodedFrom(e, rec) ==
    /\ e.uuid = rec.UUID
    /\ <<e.title>> \o e.body = rec.EntryText
    /\ e.starred = rec.Starred

====
